---- MODULE Spec2Model ----
(***************************************************************************)
(* ShortTermMemory (src/memory.py): a bounded, time-retained list of       *)
(* Memory records with filtered retrieval, search, importance update,      *)
(* deletion, clearing and save/restore; and the command-line run of        *)
(* src/main.py, which stores the inputs, perceives them, lists the tools,  *)
(* asks for a decision, calls the tool and prints the recommendation.      *)
(*                                                                         *)
(* Floats are modelled by integers (importance 3.0 is 3).  The wall clock  *)
(* datetime.now() is the variable `now`, counted in hours.                 *)
(***************************************************************************)
EXTENDS Integers, Sequences, FiniteSets, TLC

(* ---------------------------- bounds ----------------------------------- *)
MaxClock == 2         \* the clock stops at this tick
MaxId == 3            \* add_memory is not called once _next_id exceeds this
MaxTieId == 4         \* the same, for the store that evicts twice

(* ---------------------------- values ----------------------------------- *)
\* Optional[T]: None is the empty tuple, a given value v is <<v>>
None == <<>>
Some(v) == <<v>>
Given(x) == x # None
Value(x) == x[1]

\* a dict is the set of its (key, value) items
EmptyDict == {}

MemoryType ==
  {"conversation", "observation", "decision", "action", "learning", "context"}

ImportanceMin == 0
ImportanceMax == 10
DefaultMaxMemories == 100
DefaultRetentionHours == 24
DefaultNextId == 1
DefaultLimit == 10
DefaultImportance == 1

\* f"mem_{n}"
MemId(n) == <<"mem", n>>

SeqNo(id) == id[2]

\* Memory(...): the pydantic model's fields
Memory(id, content, memory_type, timestamp, importance, tags, metadata) ==
  [id |-> id, content |-> content, memory_type |-> memory_type,
   timestamp |-> timestamp, importance |-> importance, tags |-> tags,
   metadata |-> metadata]

\* Field(ge=0.0, le=10.0): construction raises ValidationError otherwise
ImportanceValid(importance) ==
  importance >= ImportanceMin /\ importance <= ImportanceMax

Max2(a, b) == IF a >= b THEN a ELSE b
Min2(a, b) == IF a <= b THEN a ELSE b

ClampNoUpper(v) == Max2(ImportanceMin, v)

\* max(0.0, min(10.0, new_importance))
Clamp(v) == Max2(ImportanceMin, Min2(ImportanceMax, v))

\* `tags or []`: None and the empty list both give []
TagsOrEmpty(x) == IF Given(x) /\ Value(x) # <<>> THEN Value(x) ELSE <<>>

\* `metadata or {}`
MetadataOrEmpty(x) == IF Given(x) /\ Value(x) # {} THEN Value(x) ELSE EmptyDict

SeqToSet(s) == {s[i] : i \in 1..Len(s)}

Reverse(s) == [i \in 1..Len(s) |-> s[Len(s) + 1 - i]]

\* tuple comparison of the sort key (m.importance, m.timestamp)
KeyLess(a, b) ==
  \/ a.importance < b.importance
  \/ a.importance = b.importance /\ a.timestamp < b.timestamp

\* list.sort is stable: x goes after every element whose key is not greater
InsertStable(sorted, x) ==
  LET later == {i \in 1..Len(sorted) : KeyLess(x, sorted[i])}
      pos == IF later = {} THEN Len(sorted) + 1
             ELSE CHOOSE i \in later : \A j \in later : i <= j
  IN SubSeq(sorted, 1, pos - 1) \o <<x>> \o SubSeq(sorted, pos, Len(sorted))

\* list.sort(key=lambda m: (m.importance, m.timestamp))
RECURSIVE SortAscending(_)
SortAscending(s) ==
  IF s = <<>> THEN <<>>
  ELSE InsertStable(SortAscending(SubSeq(s, 1, Len(s) - 1)), s[Len(s)])

\* list.sort(key=..., reverse=True): descending, equal keys keep their order
SortReverse(s) == Reverse(SortAscending(Reverse(s)))

\* s[:n] for any integer n
SlicePrefix(s, n) ==
  IF n >= 0 THEN SubSeq(s, 1, Min2(n, Len(s)))
  ELSE SubSeq(s, 1, Max2(0, Len(s) + n))

\* s[n:] for n >= 0
SliceSuffix(s, n) == SubSeq(s, Min2(n, Len(s)) + 1, Len(s))

\* timedelta(hours=h)
Hours(h) == h

(* ---------------------------- state ------------------------------------ *)
VARIABLES
  memories,         \* self.memories
  next_id,          \* self._next_id
  max_memories,     \* self.max_memories
  retention_hours,  \* self.retention_hours
  now,              \* datetime.now()
  ret,              \* the last call: its name, arguments and outcome
  issued,           \* history: the ids add_memory has returned so far
  cli               \* the run of main.py's __main__ block: position and locals

vars ==
  <<memories, next_id, max_memories, retention_hours, now, ret, issued, cli>>

\* the locals of the __main__ block before the first prompt; `steps`,
\* `calls` and `decision_outcome` are history: the components that returned,
\* the calls that left the process, what the decision model did
CliStart ==
  [pc |-> "input", entered |-> FALSE, current_loc |-> "", mood |-> <<>>,
   activity |-> <<>>, tags |-> <<>>, mem_id |-> None, gem_perception |-> None,
   tools |-> <<>>, decision_outcome |-> None, decision |-> None,
   tool_name |-> "", tool_result |-> None,
   payload |-> None, output |-> "", exit_status |-> None, error |-> "",
   steps |-> <<>>, calls |-> <<>>]

\* memory.py imported by a caller other than main.py
CliIdle == [CliStart EXCEPT !.pc = "idle"]

(* ---------------------------- inputs ----------------------------------- *)
LowerCharKeepsCase(c) == c

\* str.lower on the characters of the content and query strings
LowerChar(c) == IF c = "J" THEN "j" ELSE IF c = "A" THEN "a" ELSE c

\* (content, memory_type, tags, metadata) given to add_memory
AddPayloads ==
  { [content |-> <<"J", "a">>, memory_type |-> "conversation",
     tags |-> Some(<<"morning", "focus">>), metadata |-> None],
    [content |-> <<"a", "z">>, memory_type |-> "observation",
     tags |-> None, metadata |-> Some({<<"source", "cli">>})] }

\* constructor arguments
Capacities == {0, 1, 2}
Retentions == {0, 1}

\* time that passes inside add_memory, between the record's creation and the
\* cleanup's reading of the clock: none, or some (at most an hour)
AddDelays == {0, 1}

AddImportances == {0, 5, 10}
BadImportances == {-5, 15}
UpdateImportances == {-5, 5, 15}

Ids == {MemId(n) : n \in 1..MaxId}
ClearTypes == {None, Some("conversation"), Some("decision")}

\* arguments of get_memories
GetTypes == {None, Some("conversation")}
GetTags == {None, Some(<<"Focus">>), Some(<<"evening", "focus">>)}
GetMinImportances == {0, 5}
GetLimits == {None, Some(0), Some(1), Some(2)}
GetHoursBack == {None, Some(0), Some(1)}

\* every combination of the type, tags and min_importance filters
GetFilterArgs ==
  [memory_type : GetTypes, tags : GetTags, min_importance : GetMinImportances,
   limit : {None}, hours_back : {None}]

\* these, and every limit and every hours_back with and without the type
GetArgs ==
  GetFilterArgs \cup
  {a \in [memory_type : GetTypes, tags : {None}, min_importance : {0},
          limit : GetLimits, hours_back : GetHoursBack] :
     a.limit = None \/ a.hours_back = None}

RecentLimits == {0, 1, DefaultLimit}
\* (query, limit) given to search_memories
SearchArgs ==
  { <<(<<>>), 0>>, <<(<<>>), DefaultLimit>>, <<(<<"j", "a">>), 1>>,
    <<(<<"j", "a">>), DefaultLimit>>, <<(<<"A">>), 1>>,
    <<(<<"A">>), DefaultLimit>>, <<(<<"z", "z">>), DefaultLimit>> }

(* ---------------------------- the store -------------------------------- *)
CleanupKeepAll(mems, t, retention) == mems

\* _cleanup_old_memories at clock t
CleanupOldMemories(mems, t, retention) ==
  LET cutoff_time == t - Hours(retention)
      Keep(m) == m.timestamp >= cutoff_time
  IN SelectSeq(mems, Keep)

EnforceKeepLeast(mems, max) ==
  IF Len(mems) > max
  THEN SlicePrefix(SortAscending(mems), max)
  ELSE mems

\* _enforce_max_memories
EnforceMaxMemories(mems, max) ==
  IF Len(mems) > max
  THEN LET sorted == SortAscending(mems)
           excess == Len(sorted) - max
       IN SliceSuffix(sorted, excess)
  ELSE mems

Init ==
  /\ memories = <<>>
  /\ next_id = 1
  /\ max_memories \in Capacities
  /\ retention_hours \in Retentions
  /\ now = 0
  /\ ret = [op |-> "init"]
  /\ issued = {}
  /\ cli = CliIdle

\* add_memory; d ticks pass between Memory(...) and the cleanup's datetime.now()
AddMemoryCall(p, importance, d) ==
  /\ now + d <= MaxClock
  /\ next_id' = next_id + 1
  /\ UNCHANGED <<max_memories, retention_hours>>
  /\ IF ~ImportanceValid(importance)
     THEN /\ d = 0
          /\ UNCHANGED <<memories, now, issued>>
          /\ ret' = [op |-> "add", importance |-> importance, raised |-> TRUE]
     ELSE LET memory == Memory(MemId(next_id), p.content, p.memory_type, now,
                               importance, TagsOrEmpty(p.tags),
                               MetadataOrEmpty(p.metadata))
              appended == Append(memories, memory)
              cleaned == CleanupOldMemories(appended, now + d, retention_hours)
          IN /\ memories' = EnforceMaxMemories(cleaned, max_memories)
             /\ now' = now + d
             /\ issued' = issued \cup {MemId(next_id)}
             /\ ret' = [op |-> "add", args |-> p, importance |-> importance,
                        raised |-> FALSE, result |-> MemId(next_id),
                        before |-> Len(memories)]

\* add_memory while the ids stay within MaxId
AddMemory(p, importance, d) ==
  /\ next_id <= MaxId
  /\ AddMemoryCall(p, importance, d)
  /\ UNCHANGED cli

\* index of the first memory with this id, 0 when there is none
FirstIndex(mems, memory_id) ==
  LET hits == {i \in 1..Len(mems) : mems[i].id = memory_id}
  IN IF hits = {} THEN 0 ELSE CHOOSE i \in hits : \A j \in hits : i <= j

RemoveFrom(s, i) == SubSeq(s, 1, i - 1)

\* del s[i]
RemoveAt(s, i) == SubSeq(s, 1, i - 1) \o SubSeq(s, i + 1, Len(s))

\* update_memory_importance
UpdateMemoryImportance(memory_id, new_importance) ==
  LET i == FirstIndex(memories, memory_id)
  IN /\ IF i # 0
        THEN /\ memories' = [memories EXCEPT ![i].importance = Clamp(new_importance)]
             /\ ret' = [op |-> "update", id |-> memory_id,
                        value |-> new_importance, result |-> TRUE]
        ELSE /\ memories' = memories
             /\ ret' = [op |-> "update", id |-> memory_id,
                        value |-> new_importance, result |-> FALSE]
     /\ UNCHANGED <<next_id, max_memories, retention_hours, now, issued, cli>>

\* delete_memory
DeleteMemory(memory_id) ==
  LET i == FirstIndex(memories, memory_id)
  IN /\ IF i # 0
        THEN /\ memories' = RemoveAt(memories, i)
             /\ ret' = [op |-> "delete", id |-> memory_id, result |-> TRUE]
        ELSE /\ memories' = memories
             /\ ret' = [op |-> "delete", id |-> memory_id, result |-> FALSE]
     /\ UNCHANGED <<next_id, max_memories, retention_hours, now, issued, cli>>

ClearMemoriesResetsIds(memory_type) ==
  /\ IF Given(memory_type)
     THEN LET Keep(m) == m.memory_type # Value(memory_type)
          IN memories' = SelectSeq(memories, Keep) /\ next_id' = next_id
     ELSE memories' = <<>> /\ next_id' = DefaultNextId
  /\ ret' = [op |-> "clear", memory_type |-> memory_type]
  /\ UNCHANGED <<max_memories, retention_hours, now, issued, cli>>

ClearMemoriesKeepsType(memory_type) ==
  /\ IF Given(memory_type)
     THEN LET Keep(m) == m.memory_type = Value(memory_type)
          IN memories' = SelectSeq(memories, Keep)
     ELSE memories' = <<>>
  /\ ret' = [op |-> "clear", memory_type |-> memory_type]
  /\ UNCHANGED <<next_id, max_memories, retention_hours, now, issued, cli>>

\* clear_memories
ClearMemories(memory_type) ==
  /\ IF Given(memory_type)
     THEN LET Keep(m) == m.memory_type # Value(memory_type)
          IN memories' = SelectSeq(memories, Keep)
     ELSE memories' = <<>>
  /\ ret' = [op |-> "clear", memory_type |-> memory_type]
  /\ UNCHANGED <<next_id, max_memories, retention_hours, now, issued, cli>>

AllTagsIn(tags, m) ==
  \A i \in 1..Len(tags) : \E j \in 1..Len(m.tags) : tags[i] = m.tags[j]

\* any(tag in m.tags for tag in tags)
AnyTagIn(tags, m) ==
  \E i \in 1..Len(tags) : \E j \in 1..Len(m.tags) : tags[i] = m.tags[j]

\* get_memories at clock t
GetMemoriesOf(mems, a, t) ==
  LET OfType(m) == m.memory_type = Value(a.memory_type)
      f1 == IF Given(a.memory_type) THEN SelectSeq(mems, OfType) ELSE mems
      Tagged(m) == AnyTagIn(Value(a.tags), m)
      f2 == IF Given(a.tags) /\ Value(a.tags) # <<>>
            THEN SelectSeq(f1, Tagged) ELSE f1
      Important(m) == m.importance >= a.min_importance
      f3 == SelectSeq(f2, Important)
      Fresh(m) == m.timestamp >= t - Hours(Value(a.hours_back))
      f4 == IF Given(a.hours_back) /\ Value(a.hours_back) # 0
            THEN SelectSeq(f3, Fresh) ELSE f3
      sorted == SortReverse(f4)
  IN IF Given(a.limit) /\ Value(a.limit) # 0
     THEN SlicePrefix(sorted, Value(a.limit))
     ELSE sorted

\* get_memories
GetMemories(a) ==
  /\ ret' = [op |-> "get", args |-> a, result |-> GetMemoriesOf(memories, a, now)]
  /\ UNCHANGED <<memories, next_id, max_memories, retention_hours, now, issued, cli>>

NoFilters ==
  [memory_type |-> None, tags |-> None, min_importance |-> 0,
   limit |-> None, hours_back |-> None]

\* get_recent_context
GetRecentContext(limit) ==
  /\ ret' = [op |-> "recent", limit |-> limit,
             result |-> GetMemoriesOf(memories,
                          [NoFilters EXCEPT !.limit = Some(limit)], now)]
  /\ UNCHANGED <<memories, next_id, max_memories, retention_hours, now, issued, cli>>

\* str.lower
Lower(str) == [i \in 1..Len(str) |-> LowerChar(str[i])]

\* `q in c` for strings
IsSubstring(q, c) ==
  \E i \in 0..(Len(c) - Len(q)) : SubSeq(c, i + 1, i + Len(q)) = q

\* search_memories
SearchMemoriesOf(mems, query, limit) ==
  LET query_lower == Lower(query)
      Matches(m) == IsSubstring(query_lower, Lower(m.content))
      matching_memories == SortReverse(SelectSeq(mems, Matches))
  IN SlicePrefix(matching_memories, limit)

SearchMemories(query, limit) ==
  /\ ret' = [op |-> "search", query |-> query, limit |-> limit,
             result |-> SearchMemoriesOf(memories, query, limit)]
  /\ UNCHANGED <<memories, next_id, max_memories, retention_hours, now, issued, cli>>

Tick ==
  /\ now < MaxClock
  /\ now' = now + 1
  /\ ret' = [op |-> "tick"]
  /\ UNCHANGED <<memories, next_id, max_memories, retention_hours, issued, cli>>

\* memory.dict()
MemoryDict(m) ==
  [id |-> m.id, content |-> m.content, memory_type |-> m.memory_type,
   timestamp |-> m.timestamp, importance |-> m.importance, tags |-> m.tags,
   metadata |-> m.metadata]

\* Memory(**mem_data)
MemoryFromDict(d) ==
  Memory(d.id, d.content, d.memory_type, d.timestamp, d.importance, d.tags,
         d.metadata)

ToDictWithoutNextId ==
  [memories |-> Some([i \in 1..Len(memories) |-> MemoryDict(memories[i])]),
   next_id |-> None,
   max_memories |-> Some(max_memories),
   retention_hours |-> Some(retention_hours)]

\* to_dict
ToDict ==
  [memories |-> Some([i \in 1..Len(memories) |-> MemoryDict(memories[i])]),
   next_id |-> Some(next_id),
   max_memories |-> Some(max_memories),
   retention_hours |-> Some(retention_hours)]

\* data.get(key, default); a missing key is None
DictGet(x, default) == IF Given(x) THEN Value(x) ELSE default

\* from_dict
FromDict(data) ==
  LET mem_list == DictGet(data.memories, <<>>)
  IN /\ IF \A i \in 1..Len(mem_list) : ImportanceValid(mem_list[i].importance)
        THEN /\ memories' = [i \in 1..Len(mem_list) |-> MemoryFromDict(mem_list[i])]
             /\ next_id' = DictGet(data.next_id, DefaultNextId)
             /\ max_memories' = DictGet(data.max_memories, DefaultMaxMemories)
             /\ retention_hours' = DictGet(data.retention_hours, DefaultRetentionHours)
             /\ ret' = [op |-> "from_dict", raised |-> FALSE]
        ELSE /\ UNCHANGED <<memories, next_id, max_memories, retention_hours>>
             /\ ret' = [op |-> "from_dict", raised |-> TRUE]
     /\ UNCHANGED <<now, issued, cli>>

\* persisted layouts that did not come from to_dict of this run
SavedMemory(n, importance) ==
  [id |-> MemId(n), content |-> <<"a", "z">>, memory_type |-> "context",
   timestamp |-> 0, importance |-> importance, tags |-> <<>>,
   metadata |-> EmptyDict]

SavedLayouts ==
  { [memories |-> Some(<<SavedMemory(1, 0), SavedMemory(2, 5), SavedMemory(3, 10)>>),
     next_id |-> Some(4), max_memories |-> Some(2), retention_hours |-> Some(1)],
    [memories |-> Some(<<SavedMemory(1, 5)>>),
     next_id |-> Some(4), max_memories |-> None, retention_hours |-> None],
    [memories |-> Some(<<SavedMemory(1, 15)>>),
     next_id |-> Some(2), max_memories |-> Some(2), retention_hours |-> Some(1)] }

\* the mutating calls with in-range importances, and the passing of time
NextValid ==
  \/ \E p \in AddPayloads, i \in AddImportances, d \in AddDelays :
        AddMemory(p, i, d)
  \/ \E id \in Ids, v \in UpdateImportances : UpdateMemoryImportance(id, v)
  \/ \E id \in Ids : DeleteMemory(id)
  \/ \E t \in ClearTypes : ClearMemories(t)
  \/ Tick

SpecValid == Init /\ [][NextValid]_vars

\* the same with add_memory called with any importance
Next ==
  \/ NextValid
  \/ \E p \in AddPayloads, i \in BadImportances : AddMemory(p, i, 0)

Spec == Init /\ [][Next]_vars

\* the mutating calls with restore from a persisted layout
NextRestore ==
  \/ Next
  \/ \E data \in {ToDict} \cup SavedLayouts : FromDict(data)

SpecRestore == Init /\ [][NextRestore]_vars

\* ShortTermMemory()
InitDefault ==
  /\ memories = <<>>
  /\ next_id = DefaultNextId
  /\ max_memories = DefaultMaxMemories
  /\ retention_hours = DefaultRetentionHours
  /\ now = 0
  /\ ret = [op |-> "init"]
  /\ issued = {}
  /\ cli = CliIdle

\* add_memory with its default importance, delete_memory and clear_memories
\* on a store that neither expires nor evicts
NextClear ==
  \/ \E p \in AddPayloads, d \in AddDelays :
        AddMemory(p, DefaultImportance, d)
  \/ \E id \in Ids : DeleteMemory(id)
  \/ \E t \in ClearTypes : ClearMemories(t)
  \/ Tick

SpecClear == InitDefault /\ [][NextClear]_vars

\* the valid mutating calls with a save and restore of the store itself
NextRoundTrip ==
  \/ NextValid
  \/ FromDict(ToDict)

SpecRoundTrip == Init /\ [][NextRoundTrip]_vars

\* ShortTermMemory(max_memories=2, retention_hours=1)
InitQuery == Init /\ max_memories = 2 /\ retention_hours = 1

\* the valid mutating calls on that store
SpecRetention == InitQuery /\ [][NextValid]_vars

\* the store the reading calls are made on
NextStore ==
  \/ \E p \in AddPayloads, i \in AddImportances : AddMemory(p, i, 0)
  \/ \E id \in Ids, v \in UpdateImportances : UpdateMemoryImportance(id, v)
  \/ \E id \in Ids : DeleteMemory(id)
  \/ Tick

\* add_memory often enough for a second eviction, and the importance updates
NextTie ==
  \/ \E p \in AddPayloads, i \in AddImportances :
        next_id <= MaxTieId /\ AddMemoryCall(p, i, 0) /\ UNCHANGED cli
  \/ \E id \in Ids, v \in UpdateImportances : UpdateMemoryImportance(id, v)
  \/ Tick

SpecTie == InitQuery /\ [][NextTie]_vars

\* get_memories without limit and hours_back
NextGet ==
  \/ NextStore
  \/ \E a \in GetFilterArgs : GetMemories(a)

SpecGet == InitQuery /\ [][NextGet]_vars

\* search_memories
NextSearch ==
  \/ NextStore
  \/ \E s \in SearchArgs : SearchMemories(s[1], s[2])

SpecSearch == InitQuery /\ [][NextSearch]_vars

\* every reading call
NextQuery ==
  \/ NextStore
  \/ \E a \in GetArgs : GetMemories(a)
  \/ \E n \in RecentLimits : GetRecentContext(n)
  \/ \E s \in SearchArgs : SearchMemories(s[1], s[2])

SpecQuery == InitQuery /\ [][NextQuery]_vars

(* ---------------------------- model and tool texts --------------------- *)
\* A response text is the sequence of its pieces: a code fence (three
\* backticks), a language tag that follows it, prose, or one JSON document.  A parsed JSON
\* value is a record of its kind, an object's items, an array's elements
\* and a scalar's text.
Json(kind, fields, items, text) ==
  [kind |-> kind, fields |-> fields, items |-> items, text |-> text]

Obj(fields) == Json("object", fields, <<>>, "")
Arr(items) == Json("array", {}, items, "")
Str(text) == Json("string", {}, <<>>, text)
Num(text) == Json("number", {}, <<>>, text)
Bool(text) == Json("boolean", {}, <<>>, text)
Null == Json("null", {}, <<>>, "")
\* json.JSONDecodeError
JsonError == Json("error", {}, <<>>, "")

\* bool(value)
Truthy(v) ==
  CASE v.kind = "object" -> v.fields # {}
    [] v.kind = "array" -> v.items # <<>>
    [] v.kind = "string" -> v.text # ""
    [] v.kind = "number" -> v.text # "0"
    [] v.kind = "boolean" -> v.text = "true"
    [] OTHER -> FALSE

\* key in d
HasKey(fields, key) == \E kv \in fields : kv[1] = key

\* d[key]
Item(fields, key) == (CHOOSE kv \in fields : kv[1] = key)[2]

\* d.get(key, default)
GetOr(fields, key, default) ==
  IF HasKey(fields, key) THEN Item(fields, key) ELSE default

\* d.setdefault(key, default)
SetDefault(fields, key, default) ==
  IF HasKey(fields, key) THEN fields ELSE fields \cup {<<key, default>>}

\* three backticks
Fence == "<fence>"
\* "json" right after a fence is the fence with the json tag the code looks
\* for; "JSON" is any other tag
LanguageTags == {"json", "JSON"}

Song(title) ==
  Obj({<<"song", Str(title)>>, <<"artist", Str("Marconi Union")>>,
       <<"genre", Str("Ambient")>>, <<"energy_level", Str("very low")>>,
       <<"reason", Str("calming")>>})

\* the JSON documents the models and the tools answer with
DecisionDoc == "{\"tool_name\": \"recommend_music\", \"arguments\": {}, \"reasoning\": \"calm\"}"
DecisionNoToolDoc == "{\"arguments\": {}, \"reasoning\": \"calm\"}"
PerceptionDoc == "{\"mood_normalized\": \"ja\", \"semantic_tags\": [\"calm\"], \"location\": {\"lat\": null}}"
RecommendationsDoc == "{\"recommendations\": [s1, s2, s3, s4]}"
NoRecommendationsDoc == "{\"recommendations\": []}"
SongsDoc == "[{\"song\": \"Happy\"}]"
SongDoc == "{\"song\": \"Happy\"}"

\* json.loads of one document
JsonDocument(doc) ==
  CASE doc = DecisionDoc ->
         Obj({<<"tool_name", Str("recommend_music")>>,
              <<"arguments", Obj({})>>, <<"reasoning", Str("calm")>>})
    [] doc = DecisionNoToolDoc ->
         Obj({<<"arguments", Obj({})>>, <<"reasoning", Str("calm")>>})
    [] doc = PerceptionDoc ->
         Obj({<<"mood_normalized", Str("ja")>>,
              <<"semantic_tags", Arr(<<Str("calm")>>)>>,
              <<"location", Obj({<<"lat", Null>>})>>})
    [] doc = RecommendationsDoc ->
         Obj({<<"recommendations",
                Arr(<<Song("s1"), Song("s2"), Song("s3"), Song("s4")>>)>>})
    [] doc = NoRecommendationsDoc -> Obj({<<"recommendations", Arr(<<>>)>>})
    [] doc = SongsDoc -> Arr(<<Obj({<<"song", Str("Happy")>>})>>)
    [] doc = SongDoc -> Obj({<<"song", Str("Happy")>>})
    [] doc = "{}" -> Obj({})
    [] doc = "[]" -> Arr(<<>>)
    [] doc = "[7]" -> Arr(<<Num("7")>>)
    [] doc = "7" -> Num("7")
    [] doc = "0" -> Num("0")
    [] doc = "true" -> Bool("true")
    [] doc = "false" -> Bool("false")
    [] doc = "\"hi\"" -> Str("hi")
    [] doc = "null" -> Null
    [] OTHER -> JsonError

\* json.loads(text.strip()): one document and nothing else
JsonLoads(text) == IF Len(text) = 1 THEN JsonDocument(text[1]) ELSE JsonError

\* sep in text
OccursIn(text, sep) ==
  \E i \in 1..(Len(text) - Len(sep) + 1) : SubSeq(text, i, i + Len(sep) - 1) = sep

\* the place of the first sep in text
Find(text, sep) ==
  CHOOSE i \in 1..(Len(text) - Len(sep) + 1) :
    /\ SubSeq(text, i, i + Len(sep) - 1) = sep
    /\ \A j \in 1..(i - 1) : SubSeq(text, j, j + Len(sep) - 1) # sep

\* text.split(sep)[0]
SplitHead(text, sep) ==
  IF OccursIn(text, sep) THEN SubSeq(text, 1, Find(text, sep) - 1) ELSE text

\* text.split(sep)[1], for a text that contains sep
SplitSecond(text, sep) ==
  SplitHead(SubSeq(text, Find(text, sep) + Len(sep), Len(text)), sep)

ExtractJsonWholeText(text) == text

\* the text between the code fences, if there are any
ExtractJson(text) ==
  IF OccursIn(text, <<Fence, "json">>)
  THEN SplitHead(SplitSecond(text, <<Fence, "json">>), <<Fence>>)
  ELSE IF OccursIn(text, <<Fence>>)
       THEN SplitHead(SplitSecond(text, <<Fence>>), <<Fence>>)
       ELSE text

\* what model.generate_content does: raise, or answer with a text
Raises == [raised |-> TRUE, text |-> <<>>]
Answers(text) == [raised |-> FALSE, text |-> text]

\* make_decision
MakeDecision(outcome) ==
  IF outcome.raised
  THEN [success |-> FALSE, decision |-> None, raw_response |-> None,
        error |-> "model call failed"]
  ELSE LET decision == JsonLoads(ExtractJson(outcome.text))
       IN IF decision.kind = "error"
          THEN [success |-> FALSE, decision |-> None,
                raw_response |-> Some(outcome.text),
                error |-> "Failed to parse decision"]
          ELSE [success |-> TRUE, decision |-> Some(decision),
                raw_response |-> Some(outcome.text), error |-> ""]

\* (location or {}).get(key) if location else None
LocationGet(location, key) ==
  IF Given(location) THEN GetOr(Value(location), key, Null) ELSE Null

\* perceive_with_gemini: the data it returns, or the exception it lets out
PerceiveWithGemini(mood, activity, tags, location, outcome) ==
  IF outcome.raised
  THEN [raised |-> TRUE, error |-> "model call failed", data |-> None]
  ELSE LET parsed == JsonLoads(ExtractJson(outcome.text))
           fallback ==
             Obj({<<"mood_normalized", Str(Lower(mood))>>,
                  <<"activity_normalized", Str(Lower(activity))>>,
                  <<"semantic_tags",
                    Arr([i \in 1..Len(SlicePrefix(tags, 10)) |-> Str(tags[i])])>>,
                  <<"time_context", Str("unknown")>>,
                  <<"location",
                    Obj({<<"lat", LocationGet(location, "lat")>>,
                         <<"lon", LocationGet(location, "lon")>>,
                         <<"provided_text", LocationGet(location, "text")>>})>>,
                  <<"summary", Str(<<"mood=", mood, "; activity=", activity,
                                     "; tags=", tags>>)>>})
           data == IF parsed.kind = "error" THEN fallback ELSE parsed
       IN IF data.kind # "object"
          THEN [raised |-> TRUE, error |-> "AttributeError", data |-> None]
          ELSE LET d1 == SetDefault(data.fields, "semantic_tags", Arr(<<>>))
                   d2 == SetDefault(d1, "location", Obj({}))
                   loc == Item(d2, "location")
               IN IF loc.kind # "object"
                  THEN [raised |-> TRUE, error |-> "AttributeError",
                        data |-> None]
                  ELSE LET l1 == SetDefault(loc.fields, "lat",
                                            LocationGet(location, "lat"))
                           l2 == SetDefault(l1, "lon",
                                            LocationGet(location, "lon"))
                           l3 == SetDefault(l2, "provided_text",
                                            LocationGet(location, "text"))
                       IN [raised |-> FALSE, error |-> "",
                           data |-> Some(Obj((d2 \ {<<"location", loc>>})
                                               \cup {<<"location", Obj(l3)>>}))]

\* the recommendation recommend_music falls back to
DefaultRecommendation == Arr(<<Song("Weightless")>>)

\* recommend_music: the list the tool returns
RecommendMusic(outcome) ==
  IF outcome.raised
  THEN DefaultRecommendation
  ELSE LET data == JsonLoads(ExtractJson(outcome.text))
       IN IF data.kind # "object"
          THEN DefaultRecommendation
          ELSE LET recommendations ==
                     GetOr(data.fields, "recommendations", Arr(<<>>))
               IN IF ~Truthy(recommendations) \/ recommendations.kind # "array"
                  THEN DefaultRecommendation
                  ELSE Arr(SlicePrefix(recommendations.items, 3))

(* ---------------------------- the command-line run --------------------- *)
\* memory = ShortTermMemory(max_memories=50, retention_hours=12)
ModuleMaxMemories == 50
ModuleRetentionHours == 12
\* importance=2.0 of the record main.py stores
CliImportance == 2

\* what is typed at the prompts, after strip() and the split of the tags
Locations == {"", "Pune, India"}
Moods == {<<>>, <<"J", "a">>}
Activities == {<<>>, <<"a", "z">>}
TagLists == {<<>>, <<"focus">>}

\* what the perception model does
PerceptionOutcomes ==
  {Raises, Answers(<<PerceptionDoc>>), Answers(<<Fence, "json", "{}", Fence>>),
   Answers(<<"prose">>), Answers(<<"[]">>)}

\* what the decision model does
DecisionOutcomes ==
  {Raises, Answers(<<DecisionDoc>>),
   Answers(<<Fence, "json", DecisionDoc, Fence>>),
   Answers(<<Fence, DecisionDoc, Fence>>),
   Answers(<<Fence, "JSON", DecisionDoc, Fence>>),
   Answers(<<"prose", Fence, "json", DecisionDoc, Fence, "prose">>),
   Answers(<<"prose">>), Answers(<<>>),
   Answers(<<DecisionNoToolDoc>>), Answers(<<"[]">>)}

\* what the model inside recommend_music does
ToolModelOutcomes ==
  {Raises, Answers(<<RecommendationsDoc>>), Answers(<<NoRecommendationsDoc>>),
   Answers(<<"prose">>)}

\* the tools actions.py registers
ToolNames == <<"add", "get_current_time", "recommend_music">>

\* what a call over the tool channel does: fail, or answer with content blocks
ChannelFails == [failed |-> TRUE, content |-> <<>>]
ChannelAnswers(content) == [failed |-> FALSE, content |-> content]

PayloadTexts ==
  {<<"prose">>, <<"[]">>, <<SongsDoc>>, <<SongDoc>>, <<"[7]">>, <<"7">>,
   <<"0">>, <<"true">>, <<"false">>, <<"\"hi\"">>, <<"null">>}

CallToolOutcomes ==
  {ChannelFails, ChannelAnswers(<<>>)}
    \cup {ChannelAnswers(<<text>>) : text \in PayloadTexts}

\* ', '.join(tags)
RECURSIVE Join(_)
Join(tags) ==
  IF Len(tags) <= 1 THEN tags
  ELSE <<tags[1], ", ">> \o Join(Tail(tags))

\* the process starts; the module-level store is empty
InitCli ==
  /\ memories = <<>>
  /\ next_id = DefaultNextId
  /\ max_memories = ModuleMaxMemories
  /\ retention_hours = ModuleRetentionHours
  /\ now = 0
  /\ ret = [op |-> "init"]
  /\ issued = {}
  /\ cli = CliStart

\* an exception nothing catches: traceback, exit status 1
Crash(c, exception) ==
  [c EXCEPT !.pc = "crashed", !.exit_status = Some(1), !.error = exception]

ReadInputsUnchecked(current_loc, mood, activity, tags) ==
  /\ cli.pc = "input"
  /\ cli' = [cli EXCEPT !.entered = TRUE, !.current_loc = current_loc,
                        !.mood = mood, !.activity = activity, !.tags = tags,
                        !.pc = "store"]
  /\ UNCHANGED <<memories, next_id, max_memories, retention_hours, now, ret,
                 issued>>

\* the four prompts and `if not mood or not activity: raise SystemExit(...)`
ReadInputs(current_loc, mood, activity, tags) ==
  /\ cli.pc = "input"
  /\ LET c == [cli EXCEPT !.entered = TRUE, !.current_loc = current_loc,
                          !.mood = mood, !.activity = activity, !.tags = tags]
     IN cli' = IF mood = <<>> \/ activity = <<>>
               THEN [c EXCEPT !.pc = "exited", !.exit_status = Some(1),
                              !.error = "Mood and activity are required."]
               ELSE [c EXCEPT !.pc = "store"]
  /\ UNCHANGED <<memories, next_id, max_memories, retention_hours, now, ret,
                 issued>>

\* memory.add_memory(content=..., CONVERSATION, importance=2.0, ...)
StoreInputs(d) ==
  /\ cli.pc = "store"
  /\ AddMemoryCall([content |-> <<"Mood: ">> \o cli.mood \o <<"; Activity: ">>
                                 \o cli.activity \o <<"; Tags: ">>
                                 \o Join(cli.tags),
                    memory_type |-> "conversation",
                    tags |-> Some(cli.tags),
                    metadata |-> Some({<<"source", "cli">>})],
                   CliImportance, d)
  /\ cli' = [cli EXCEPT !.pc = "perceive", !.mem_id = Some(MemId(next_id)),
                        !.steps = Append(@, "memory")]

\* pm.perceive_user_input(...) and perceive_with_gemini(...)
Perceive(outcome) ==
  /\ cli.pc = "perceive"
  /\ LET location == IF cli.current_loc # ""
                     THEN Some({<<"text", Str(cli.current_loc)>>})
                     ELSE None
         r == PerceiveWithGemini(cli.mood, cli.activity, cli.tags, location,
                                 outcome)
         c == [cli EXCEPT !.calls = Append(@, "model: perception")]
     IN cli' = IF r.raised
               THEN Crash(c, r.error)
               ELSE [c EXCEPT !.pc = "tools", !.gem_perception = r.data,
                              !.steps = Append(@, "perception")]
  /\ UNCHANGED <<memories, next_id, max_memories, retention_hours, now, ret,
                 issued>>

\* tools = run_async(get_tools_list()) and the description of the tools
GetToolsList(failed) ==
  /\ cli.pc = "tools"
  /\ LET c == [cli EXCEPT !.calls = Append(@, "channel: list_tools")]
     IN cli' = IF failed
               THEN Crash(c, "channel call failed")
               ELSE [c EXCEPT !.pc = "decide", !.tools = ToolNames,
                              !.steps = Append(@, "tools")]
  /\ UNCHANGED <<memories, next_id, max_memories, retention_hours, now, ret,
                 issued>>

\* decision = decision_maker.make_decision(...) and the three reads of
\* decision["decision"][...]
Decide(outcome) ==
  /\ cli.pc = "decide"
  /\ LET result == MakeDecision(outcome)
         c == [cli EXCEPT !.calls = Append(@, "model: decision"),
                          !.decision_outcome = Some(outcome),
                          !.decision = Some(result),
                          !.steps = Append(@, "decision")]
     IN cli' =
          IF ~Given(result.decision)
          THEN Crash(c, "KeyError")
          ELSE LET decision == Value(result.decision)
               IN IF decision.kind # "object"
                  THEN Crash(c, "TypeError")
                  ELSE IF \E key \in {"tool_name", "arguments", "reasoning"} :
                            ~HasKey(decision.fields, key)
                       THEN Crash(c, "KeyError")
                       ELSE [c EXCEPT !.pc = "call_tool",
                                      !.tool_name =
                                        Item(decision.fields, "tool_name").text]
  /\ UNCHANGED <<memories, next_id, max_memories, retention_hours, now, ret,
                 issued>>

\* payload = run_async(call_tool_with_session()); the server runs the tool
CallTool(outcome, model) ==
  /\ cli.pc = "call_tool"
  /\ LET c == [cli EXCEPT !.calls = Append(@, "channel: call_tool")]
     IN cli' =
          IF outcome.failed
          THEN Crash(c, "channel call failed")
          ELSE [c EXCEPT !.pc = "report",
                         !.tool_result =
                           IF cli.tool_name = "recommend_music"
                           THEN Some(RecommendMusic(model))
                           ELSE None,
                         !.payload =
                           IF outcome.content # <<>>
                           THEN Some(outcome.content[1])
                           ELSE Some(<<"[]">>),
                         !.steps = Append(@, "tool")]
  /\ UNCHANGED <<memories, next_id, max_memories, retention_hours, now, ret,
                 issued>>

\* json.loads(payload) and the printing of the recommendation
ReportRecommendations ==
  /\ cli.pc = "report"
  /\ LET loaded == JsonLoads(Value(cli.payload))
         decoded == IF loaded.kind = "error" THEN Arr(<<>>) ELSE loaded
         payload == IF decoded.kind = "object" THEN Arr(<<decoded>>)
                    ELSE decoded
         Done(output) == [cli EXCEPT !.pc = "done", !.output = output,
                                     !.exit_status = Some(0),
                                     !.steps = Append(@, "output")]
     IN cli' =
          IF ~Truthy(payload)
          THEN Done("No recommendations received.")
          ELSE IF payload.kind \in {"number", "boolean"}
               THEN Crash(cli, "TypeError")
               ELSE IF payload.kind = "array" /\ payload.items[1].kind = "object"
                    THEN Done("Final Music Recommendations")
                    ELSE Done("Unexpected payload format")
  /\ UNCHANGED <<memories, next_id, max_memories, retention_hours, now, ret,
                 issued>>

\* Ctrl-C: except KeyboardInterrupt prints "Cancelled."
Interrupt ==
  /\ cli.pc \in {"input", "store", "perceive", "tools", "decide", "call_tool",
                 "report"}
  /\ cli' = [cli EXCEPT !.pc = "cancelled", !.exit_status = Some(0),
                        !.output = "Cancelled."]
  /\ UNCHANGED <<memories, next_id, max_memories, retention_hours, now, ret,
                 issued>>

NextCli ==
  \/ \E current_loc \in Locations, mood \in Moods, activity \in Activities,
        tags \in TagLists : ReadInputs(current_loc, mood, activity, tags)
  \/ \E d \in AddDelays : StoreInputs(d)
  \/ \E outcome \in PerceptionOutcomes : Perceive(outcome)
  \/ \E failed \in BOOLEAN : GetToolsList(failed)
  \/ \E outcome \in DecisionOutcomes : Decide(outcome)
  \/ \E outcome \in CallToolOutcomes, model \in ToolModelOutcomes :
        CallTool(outcome, model)
  \/ ReportRecommendations
  \/ Interrupt

SpecCli == InitCli /\ [][NextCli]_vars

(* ---------------------------- claims ----------------------------------- *)
StoredIds == {memories[i].id : i \in 1..Len(memories)}

\* C1: after every mutating operation, from_dict included, the number of
\* stored records is at most max_memories.
C1_SizeWithinCapacity == Len(memories) <= max_memories

\* C2: when add_memory returns, the stored records are the previous ones plus
\* the new one, without those created before (now - retention_hours), and,
\* only if more than max_memories of these remain, without the
\* (count - max_memories) smallest by (importance, timestamp); get_memories
\* with no filters returns exactly the stored records.
C2_AddKeepsRetainedMostImportant ==
  [][(ret'.op = "add" /\ ~ret'.raised) =>
       LET new == [id |-> ret'.result, content |-> ret'.args.content,
                   memory_type |-> ret'.args.memory_type, timestamp |-> now,
                   importance |-> ret'.importance,
                   tags |-> IF ret'.args.tags = None THEN <<>>
                            ELSE ret'.args.tags[1],
                   metadata |-> IF ret'.args.metadata = None THEN {}
                                ELSE ret'.args.metadata[1]]
           all == SeqToSet(memories) \cup {new}
           retained == {m \in all :
                          ~(m.timestamp < now' - retention_hours)}
           stored == SeqToSet(memories')
           removed == retained \ stored
           got == GetMemoriesOf(memories', NoFilters, now')
       IN /\ stored \subseteq retained
          /\ Cardinality(stored) = Len(memories')
          /\ IF Cardinality(retained) <= max_memories
             THEN stored = retained
             ELSE /\ Cardinality(removed) = Cardinality(retained) - max_memories
                  /\ \A r \in removed : \A k \in stored :
                        \/ r.importance < k.importance
                        \/ r.importance = k.importance /\ r.timestamp <= k.timestamp
          /\ SeqToSet(got) = stored
          /\ Len(got) = Cardinality(stored)]_vars

\* the scenario of max_memories = 2: with A (lowest), B (highest) stored and
\* nothing expired, adding C (between them) evicted A and get returns [B, C]
C2_Witness ==
  /\ ret.op = "add" /\ ~ret.raised /\ ret.before = 2
  /\ max_memories = 2 /\ now = 0
  /\ ret.result = MemId(3) /\ ret.importance = 5
  /\ StoredIds = {MemId(2), MemId(3)}
  /\ LET got == GetMemoriesOf(memories, NoFilters, now)
     IN /\ Len(got) = 2
        /\ got[1].id = MemId(2) /\ got[1].importance = 10
        /\ got[2].id = MemId(3)

\* C3: add_memory with an importance outside [0, 10] does not raise; it
\* returns the new id and stores the record with the importance clamped.
C3_AddClampsOutOfRange ==
  (ret.op = "add" /\ (ret.importance < 0 \/ ret.importance > 10)) =>
    /\ ~ret.raised
    /\ max_memories > 0 =>
         \E i \in 1..Len(memories) :
           /\ memories[i].id = ret.result
           /\ memories[i].importance = (IF ret.importance < 0 THEN 0 ELSE 10)

\* C4: update_memory_importance(id, v) on a stored id sets that record's
\* importance to min(10, max(0, v)), returns true and changes nothing else;
\* on an absent id it returns false and changes nothing.
C4_UpdateClampsOneRecord ==
  [][ret'.op = "update" =>
       LET hits == {i \in 1..Len(memories) : memories[i].id = ret'.id}
           v == ret'.value
           clamped == IF v < 0 THEN 0 ELSE IF v > 10 THEN 10 ELSE v
       IN /\ ret'.result = (hits # {})
          /\ Len(memories') = Len(memories)
          /\ \A i \in 1..Len(memories) :
               IF i \in hits
               THEN memories'[i] = [memories[i] EXCEPT !.importance = clamped]
               ELSE memories'[i] = memories[i]
          /\ next_id' = next_id
          /\ max_memories' = max_memories
          /\ retention_hours' = retention_hours]_vars

\* an update with 15 that found its record, next to another record
C4_Witness ==
  /\ ret.op = "update" /\ ret.result /\ ret.value = 15
  /\ Len(memories) = 2
  /\ \E i \in 1..Len(memories) :
       memories[i].id = ret.id /\ memories[i].importance = 10

\* C5: delete_memory on an absent id returns false and leaves the store
\* unchanged; on a stored id it returns true and removes exactly that record.
C5_DeleteRemovesExactlyOne ==
  [][ret'.op = "delete" =>
       LET hits == {i \in 1..Len(memories) : memories[i].id = ret'.id}
       IN /\ next_id' = next_id
          /\ IF hits = {}
             THEN ret'.result = FALSE /\ memories' = memories
             ELSE /\ ret'.result = TRUE
                  /\ Len(memories') = Len(memories) - 1
                  /\ \E i \in hits :
                       /\ \A j \in 1..(i - 1) : memories'[j] = memories[j]
                       /\ \A j \in i..(Len(memories) - 1) :
                            memories'[j] = memories[j + 1]]_vars

\* a delete that removed one of two records
C5_Witness ==
  /\ ret.op = "delete" /\ ret.result
  /\ Len(memories) = 1 /\ SeqNo(memories[1].id) > SeqNo(ret.id)

\* C10: every id add_memory returns is greater than every id it returned
\* before, stored ids are pairwise distinct, and an id that left the store
\* is never assigned again.
C10_IdsIncreaseNeverReused ==
  [][/\ (ret'.op = "add" /\ ~ret'.raised) =>
          /\ \A id \in issued : SeqNo(ret'.result) > SeqNo(id)
          /\ ret'.result \notin issued
     /\ StoredIds' \subseteq issued'
     /\ Cardinality(StoredIds') = Len(memories')]_vars

\* an add that returned mem_3 after mem_1 was deleted or evicted
C10_Witness ==
  /\ ret.op = "add" /\ ~ret.raised /\ ret.result = MemId(3)
  /\ MemId(1) \in issued /\ MemId(1) \notin StoredIds
  /\ MemId(3) \in StoredIds

\* C6: get_memories with any of memory_type, a non-empty tags list and
\* min_importance (no limit, no hours_back) returns exactly the stored
\* records of that type, sharing a tag (exact, case-sensitive) and with
\* importance >= min_importance, by importance descending and then
\* timestamp descending.
C6_GetFiltersAndSorts ==
  (ret.op = "get" /\ ret.args.limit = None /\ ret.args.hours_back = None) =>
    LET a == ret.args
        r == ret.result
        Match(m) ==
          /\ a.memory_type = None \/ m.memory_type = a.memory_type[1]
          /\ a.tags = None \/ SeqToSet(a.tags[1]) \cap SeqToSet(m.tags) # {}
          /\ m.importance >= a.min_importance
    IN /\ SeqToSet(r) = {m \in SeqToSet(memories) : Match(m)}
       /\ Len(r) = Cardinality(SeqToSet(r))
       /\ \A i \in 1..Len(r) : \A j \in (i + 1)..Len(r) :
            \/ r[i].importance > r[j].importance
            \/ r[i].importance = r[j].importance
                 /\ r[i].timestamp >= r[j].timestamp

\* a get by type, tags and min_importance that dropped one of two records
\* for its tags
C6_Witness ==
  /\ ret.op = "get" /\ ret.args.limit = None /\ ret.args.hours_back = None
  /\ ret.args.memory_type # None /\ ret.args.tags = Some(<<"evening", "focus">>)
  /\ ret.args.min_importance = 5
  /\ Len(memories) = 2 /\ Len(ret.result) = 1
  /\ \A i \in 1..2 : memories[i].importance = 10

\* C7: for every limit >= 0 get_memories returns the first `limit` records
\* of the sorted filtered sequence, so min(limit, matching) records;
\* get_recent_context(limit) returns what get_memories(limit=limit) returns.
C7_LimitTruncates ==
  /\ (ret.op = "get" /\ ret.args.limit # None) =>
       LET full == GetMemoriesOf(memories, [ret.args EXCEPT !.limit = None], now)
           n == ret.args.limit[1]
       IN /\ Len(ret.result) = (IF n <= Len(full) THEN n ELSE Len(full))
          /\ \A i \in 1..Len(ret.result) : ret.result[i] = full[i]
  /\ ret.op = "recent" =>
       ret.result = GetMemoriesOf(memories,
                      [NoFilters EXCEPT !.limit = Some(ret.limit)], now)

\* C8: for every hours_back >= 0 every record get_memories returns has
\* timestamp >= now - hours_back, and with no limit every stored record that
\* passes the other filters and is that recent is returned.
C8_HoursBackFilters ==
  (ret.op = "get" /\ ret.args.hours_back # None) =>
    LET a == ret.args
        cutoff == now - a.hours_back[1]
        others == GetMemoriesOf(memories, [a EXCEPT !.hours_back = None], now)
    IN /\ \A i \in 1..Len(ret.result) : ret.result[i].timestamp >= cutoff
       /\ a.limit = None =>
            \A i \in 1..Len(others) :
              others[i].timestamp >= cutoff => others[i] \in SeqToSet(ret.result)

\* the same letter, ignoring case
SameLetter(c, d) == c = d \/ {c, d} \in {{"j", "J"}, {"a", "A"}}

\* C9: search_memories(query, limit) returns the first `limit`, in the order
\* of get_memories, of exactly the stored records whose content contains
\* query ignoring case; the empty query matches every record.
C9_SearchIgnoresCase ==
  ret.op = "search" =>
    LET q == ret.query
        r == ret.result
        Contains(m) ==
          \E off \in 0..(Len(m.content) - Len(q)) :
            \A k \in 1..Len(q) : SameLetter(m.content[off + k], q[k])
        matching == SelectSeq(GetMemoriesOf(memories, NoFilters, now), Contains)
    IN /\ Len(r) = (IF ret.limit <= Len(matching) THEN ret.limit ELSE Len(matching))
       /\ \A i \in 1..Len(r) : r[i] = matching[i]
       /\ SeqToSet(matching) = {m \in SeqToSet(memories) : Contains(m)}
       /\ q = <<>> => Len(matching) = Len(memories)

\* search "ja" found the record whose content is "Ja" and not the other one
C9_Witness ==
  /\ ret.op = "search" /\ ret.query = <<"j", "a">> /\ ret.limit = DefaultLimit
  /\ Len(memories) = 2 /\ Len(ret.result) = 1
  /\ ret.result[1].content = <<"J", "a">>

\* C11: retention is enforced only by add_memory: when an add returns no
\* stored record has a timestamp before (now at the cleanup) minus
\* retention_hours; update, delete of another id, clear of another type and
\* the passing of time keep every record that is already that old, and
\* get_memories still returns it.
C11_RetentionOnlyOnAdd ==
  [][
    /\ (ret'.op = "add" /\ ~ret'.raised) =>
         \A i \in 1..Len(memories') :
           memories'[i].timestamp >= now' - retention_hours
    /\ ret'.op \in {"update", "delete", "clear", "tick"} =>
         LET got == SeqToSet(GetMemoriesOf(memories', NoFilters, now'))
             Expired(m) == m.timestamp < now' - retention_hours
             Targeted(m) ==
               \/ ret'.op = "delete" /\ ret'.id = m.id
               \/ ret'.op = "clear"
                    /\ (ret'.memory_type = None
                          \/ ret'.memory_type = Some(m.memory_type))
         IN \A k \in 1..Len(memories) :
              (Expired(memories[k]) /\ ~Targeted(memories[k])) =>
                \E j \in 1..Len(memories') :
                  /\ memories'[j].id = memories[k].id
                  /\ memories'[j].timestamp = memories[k].timestamp
                  /\ memories'[j] \in got
  ]_vars

\* an update, a delete or a clear returned with an expired record of another
\* id and type still stored
C11_Witness ==
  /\ ret.op \in {"update", "delete", "clear"}
  /\ \E i \in 1..Len(memories) :
       /\ memories[i].timestamp < now - retention_hours
       /\ ret.op = "update" => (ret.result /\ ret.id # memories[i].id)
       /\ ret.op = "delete" => (ret.result /\ ret.id # memories[i].id)
       /\ ret.op = "clear" => ret.memory_type # None

\* C12: from_dict of what to_dict returned gives a store with the same
\* sequence of records in all seven fields and the same next_id, max_memories
\* and retention_hours, and it does not raise, so the next add_memory returns
\* the id it would have returned on the original store.
C12_RoundTrip ==
  [][FromDict(ToDict) =>
       /\ ~ret'.raised
       /\ Len(memories') = Len(memories)
       /\ \A i \in 1..Len(memories) :
            /\ memories'[i].id = memories[i].id
            /\ memories'[i].content = memories[i].content
            /\ memories'[i].memory_type = memories[i].memory_type
            /\ memories'[i].timestamp = memories[i].timestamp
            /\ memories'[i].importance = memories[i].importance
            /\ memories'[i].tags = memories[i].tags
            /\ memories'[i].metadata = memories[i].metadata
       /\ next_id' = next_id
       /\ max_memories' = max_memories
       /\ retention_hours' = retention_hours
       /\ MemId(next_id') = MemId(next_id)]_vars

\* a store of two records, one with tags and one with metadata, restored
\* from its own to_dict
C12_Witness ==
  /\ ret.op = "from_dict" /\ ~ret.raised
  /\ next_id = 3 /\ Len(memories) = 2
  /\ \E i, j \in 1..2 : memories[i].tags # <<>> /\ memories[j].metadata # {}

\* C13: clear_memories() leaves no record; clear_memories(type) removes
\* exactly the records of that type and leaves every other record unchanged
\* and in the same relative order; max_memories, retention_hours and the next
\* id are unchanged in both cases.
C13_ClearRemovesOnlyType ==
  [][ret'.op = "clear" =>
       /\ next_id' = next_id
       /\ max_memories' = max_memories
       /\ retention_hours' = retention_hours
       /\ IF ret'.memory_type = None
          THEN Len(memories') = 0
          ELSE LET OfType(k) == memories[k].memory_type = ret'.memory_type[1]
                   removed == {k \in 1..Len(memories) : OfType(k)}
                   Before(k) == Cardinality({j \in removed : j < k})
               IN /\ Len(memories') = Len(memories) - Cardinality(removed)
                  /\ \A k \in 1..Len(memories) :
                       ~OfType(k) => memories'[k - Before(k)] = memories[k]]_vars

\* clear_memories("conversation") returned and the store holds the first
\* and the third record added, both observations, in that order
C13_Witness ==
  /\ ret.op = "clear" /\ ret.memory_type = Some("conversation")
  /\ next_id = 4
  /\ Len(memories) = 2
  /\ memories[1].memory_type = "observation" /\ memories[1].id = MemId(1)
  /\ memories[2].memory_type = "observation" /\ memories[2].id = MemId(3)

\* C20: when add_memory evicts for capacity and two stored records have the
\* same importance and the same timestamp, the one with the higher id is
\* never removed while the one with the lower id stays.
C20_TieEvictsLowerId ==
  [][(ret'.op = "add" /\ ~ret'.raised) =>
       \A i, j \in 1..Len(memories) :
         (/\ memories[i].importance = memories[j].importance
          /\ memories[i].timestamp = memories[j].timestamp
          /\ SeqNo(memories[i].id) < SeqNo(memories[j].id)
          /\ memories[i].id \in {memories'[k].id : k \in 1..Len(memories')})
         => memories[j].id \in {memories'[k].id : k \in 1..Len(memories')}]_vars

\* C14: in a run that reaches its output the components return in this
\* order: perception, the add of the CONVERSATION record, the decision, the
\* tool call, the output.
C14_StepsInOrder ==
  cli.pc = "done" =>
    LET Claimed(step) ==
          step \in {"perception", "memory", "decision", "tool", "output"}
    IN SelectSeq(cli.steps, Claimed)
         = <<"perception", "memory", "decision", "tool", "output">>

\* the response without a leading fence, the language tag after it and a
\* trailing fence
StripLeadingFence(text) ==
  LET first == IF Len(text) >= 1 /\ text[1] = Fence
               THEN IF Len(text) >= 2 /\ text[2] \in LanguageTags
                    THEN 3 ELSE 2
               ELSE 1
      last == IF Len(text) >= first /\ text[Len(text)] = Fence
              THEN Len(text) - 1 ELSE Len(text)
  IN SubSeq(text, first, last)

\* the response from after the first fence tagged json (without one: after
\* the first fence) to before the next fence; all of it without a fence
BetweenFences(text) ==
  LET fences == {i \in 1..Len(text) : text[i] = Fence}
      tagged == {i \in fences : i < Len(text) /\ text[i + 1] = "json"}
      Least(S) == CHOOSE i \in S : \A j \in S : i <= j
      first == IF tagged # {} THEN Least(tagged) + 2
               ELSE IF fences # {} THEN Least(fences) + 1 ELSE 1
      closing == {i \in fences : i >= first}
      last == IF closing # {} THEN Least(closing) - 1 ELSE Len(text)
  IN SubSeq(text, first, last)

\* make_decision returned a result that is right for `body`, the part of the
\* response that is to be parsed
DecisionResultFor(outcome, result, body) ==
  IF outcome.raised
  THEN ~result.success
  ELSE IF JsonLoads(body).kind # "error"
       THEN result.success /\ result.decision = Some(JsonLoads(body))
       ELSE ~result.success /\ result.raw_response = Some(outcome.text)

\* C15 as stated: make_decision never raises; when the response without its
\* leading fence (and language tag) and trailing fence parses as JSON the
\* result has success = true and the parsed decision, when it does not the
\* result has success = false and the raw text, and when the model call
\* fails the result has success = false.
C15_ParsesAfterLeadingFence ==
  Given(cli.decision_outcome) =>
    /\ Given(cli.decision)
    /\ DecisionResultFor(Value(cli.decision_outcome), Value(cli.decision),
                         StripLeadingFence(Value(cli.decision_outcome).text))

\* C15 amended: the same with the parsed part being the text between the
\* first fence tagged json (or else the first fence) and the next fence,
\* wherever in the response they are, and the whole response without a fence.
C15_ParsesBetweenFences ==
  Given(cli.decision_outcome) =>
    /\ Given(cli.decision)
    /\ DecisionResultFor(Value(cli.decision_outcome), Value(cli.decision),
                         BetweenFences(Value(cli.decision_outcome).text))

\* make_decision took the decision from a fenced block with prose around it
C15_Witness ==
  /\ cli.decision_outcome
       = Some(Answers(<<"prose", Fence, "json", DecisionDoc, Fence, "prose">>))
  /\ Value(cli.decision).success
  /\ Value(cli.decision).decision = Some(JsonDocument(DecisionDoc))

\* C16: a decision result with success = false, or a decision without
\* tool_name, arguments or reasoning, does not end the run with an unhandled
\* error.
C16_DecisionFailureHandled ==
  Given(cli.decision) =>
    LET result == Value(cli.decision)
        incomplete ==
          \/ ~result.success
          \/ Value(result.decision).kind # "object"
          \/ \E key \in {"tool_name", "arguments", "reasoning"} :
               ~HasKey(Value(result.decision).fields, key)
    IN incomplete => cli.pc # "crashed"

\* C17: a failed model call or tool-channel call is not raised out of the
\* component that made it: the run does not end with it, make_decision
\* returns success = false and recommend_music returns its default.
C17_TransportFailureRecovered ==
  /\ cli.pc = "crashed" =>
       cli.error \notin {"model call failed", "channel call failed"}
  /\ (Given(cli.decision_outcome) /\ Value(cli.decision_outcome).raised) =>
       (Given(cli.decision) /\ ~Value(cli.decision).success)
  /\ RecommendMusic(Raises) = DefaultRecommendation

\* C18: whatever the payload of the tool result, the handling does not
\* raise: a payload that does not decode or is empty gives "No
\* recommendations received." and every other payload gives some output.
C18_PayloadHandled ==
  (Given(cli.payload) /\ cli.pc \notin {"report", "cancelled"}) =>
    LET loaded == JsonLoads(Value(cli.payload))
    IN /\ cli.pc = "done"
       /\ cli.output # ""
       /\ (loaded.kind = "error" \/ loaded = Arr(<<>>)) =>
            cli.output = "No recommendations received."

\* C19: with an empty mood or activity the run ends with exit status 1 and
\* the message, with nothing added to the store and no model or tool-channel
\* call made.
C19_EmptyInputExits ==
  (cli.entered /\ (cli.mood = <<>> \/ cli.activity = <<>>)) =>
    /\ cli.pc = "exited"
    /\ Given(cli.exit_status) /\ Value(cli.exit_status) # 0
    /\ cli.error = "Mood and activity are required."
    /\ memories = <<>> /\ issued = {} /\ next_id = DefaultNextId
    /\ cli.mem_id = None
    /\ cli.calls = <<>> /\ cli.steps = <<>>

\* a mood was entered and no activity, and the run ended
C19_Witness ==
  /\ cli.pc = "exited"
  /\ cli.mood # <<>> /\ cli.activity = <<>> /\ cli.tags # <<>>

\* C21: on a store with max_memories >= 1 and retention_hours > 0, the record
\* whose id add_memory returns is stored when add_memory returns, and a
\* delete_memory or update_memory_importance of that id right after it
\* returns True.
C21_AddedRecordIsStored ==
  [][(max_memories >= 1 /\ retention_hours > 0) =>
       /\ (ret'.op = "add" /\ ~ret'.raised) =>
            ret'.result \in {memories'[k].id : k \in 1..Len(memories')}
       /\ (/\ ret.op = "add" /\ ~ret.raised
           /\ ret'.op \in {"delete", "update"}
           /\ ret'.id = ret.result) => ret'.result = TRUE]_vars

====
